---- MODULE Spec2Model ----
(***************************************************************************)
(* A model of flask_babel/__init__.py: request-scoped locale and timezone  *)
(* resolution (get_locale, get_timezone, refresh, force_locale) and the    *)
(* translation domain (Domain.get_translations: load, merge, cache).       *)
(*                                                                         *)
(* Python values are records tagged by a field k, so that None, an absent  *)
(* attribute, a str, a babel Locale and a pytz timezone are all distinct   *)
(* and comparable.                                                         *)
(***************************************************************************)
EXTENDS Integers, Sequences, FiniteSets, TLC

\* ------------------------------------------------------------------ bounds
\* Deepest nesting of force_locale blocks a thread opens.
MaxDepth == 2
\* The selector-invocation counters saturate here.
MaxCalls == 2
\* Most composite catalog objects ever built and kept.
MaxObjects == 4

\* ------------------------------------------------------------ Python values
None == [k |-> "None"]
\* An attribute that is not set on a namespace (hasattr is False).
Absent == [k |-> "Absent"]
Str(s) == [k |-> "str", s |-> s]

\* babel.Locale.parse on an identifier: "de_DE" -> Locale("de", territory="DE").
LocaleIds == {"en", "de_DE"}
LocaleParse(id) ==
    CASE id = "en" -> [k |-> "Locale", language |-> "en", territory |-> ""]
      [] id = "de_DE" -> [k |-> "Locale", language |-> "de", territory |-> "DE"]
Locales == {LocaleParse(id) : id \in LocaleIds}
\* str(locale): babel joins language and territory with "_"; str(None) = "None".
LocaleStr(locale) ==
    IF locale = None THEN "None"
    ELSE IF locale.territory = "" THEN locale.language
    ELSE locale.language \o "_" \o locale.territory

\* pytz.timezone(name): a structured timezone for an identifier.
TzIds == {"UTC", "Europe/Vienna"}
timezone(name) == [k |-> "tz", zone |-> name]

\* What the host's selector callbacks can return at an invocation.
LocaleSelectorReturns == {None} \cup {Str(id) : id \in LocaleIds}
TimezoneSelectorReturns == {None, Str("Europe/Vienna"), timezone("Europe/Vienna")}

\* ------------------------------------------------------------------- state
Threads == {"r1", "r2"}

\* The applications that one Babel instance is initialized for.
AppNames == {"app1", "app2"}

VARIABLES
    babel,      \* app.extensions["babel"]: the BabelConfiguration
    fs,         \* the compiled catalog each directory / package holds
    pool,       \* the threads that run requests
    active,     \* active[t]: t is inside a request (flask.g is bound)
    ctx,        \* ctx[t]: g._flask_babel, the request's SimpleNamespace
    stack,      \* stack[t]: the open force_locale blocks of t, innermost last
    calls,      \* calls[t]: selector invocations since the last refresh/force_locale
    cache,      \* cache[d]: Domain d's cache dict
    nextObj,    \* identity of the next composite catalog object
    lazy,       \* the LazyString bound to a module-level name, None before one is made
    building,   \* building[t]: the get_translations() call t is in the middle of, else None
    tree,       \* tree[d]: what translation directory d holds on disk, folder by folder
    date_formats,\* babel.instance.date_formats: format defaults and overrides by key
    apps,       \* apps.ext[a]: app.extensions of application a; apps.current: current_app
    last        \* the most recent call and what it returned

vars == <<babel, fs, pool, active, ctx, stack, calls, cache, nextObj, lazy, building, tree, date_formats, apps, last>>

\* SimpleNamespace(): no attribute set.
EmptyNamespace ==
    [babel_locale |-> Absent, babel_tzinfo |-> Absent, babel_translations |-> Absent,
     forced_babel_locale |-> Absent, babel_domain |-> Absent]

\* getattr(ctx, name, None)
GetAttr(c, name) == IF c[name] = Absent THEN None ELSE c[name]
HasAttr(c, name) == c[name] # Absent

NoSel == [called |-> FALSE, rv |-> None]
NoCalls == [locale |-> 0, tz |-> 0]
Bump(n) == IF n < MaxCalls THEN n + 1 ELSE n

\* The record kept of a call: its name, thread, whether it ran inside a request,
\* its argument, what it returned or that it raised, the selector invocation it
\* made, the catalog reads it made, the cache key it used and whether that was
\* a hit.  For refresh, arg is the memoized locale the call found; for the end
\* of a force_locale block, arg is the locale the block forced and ret the
\* memoized locale (None when there was none) found when the block was entered.
Call(op, t, arg, ret, raised, sel, io, key, hit) ==
    [op |-> op, t |-> t, inreq |-> active[t], arg |-> arg, ret |-> ret,
     raised |-> raised, sel |-> sel, io |-> io, key |-> key, hit |-> hit]
NoKey == <<>>
\* A call that returns a value and does nothing else worth recording.
Plain(op, t, arg, ret, raised, sel) == Call(op, t, arg, ret, raised, sel, <<>>, NoKey, FALSE)

\* ------------------------------------------------------- configuration
\* Babel.default_locale / Babel.default_timezone (properties)
default_locale == LocaleParse(babel.default_locale)
default_timezone == timezone(babel.default_timezone)

\* _get_current_context(): None outside a request, else the namespace.
InRequest(t) == active[t]

\* ------------------------------------------------------------ get_locale
\* get_locale() that forgets line 267, ctx.babel_locale = locale.
ResolveLocaleNoMemo(c, rv) ==
    LET memo == GetAttr(c, "babel_locale") IN
    IF memo # None
    THEN [ret |-> memo, ctx |-> c, sel |-> NoSel]
    ELSE LET invoked == babel.locale_selector
             locale == IF ~invoked THEN default_locale
                       ELSE IF rv = None THEN default_locale
                       ELSE LocaleParse(rv.s)
         IN [ret |-> locale, ctx |-> c,
             sel |-> IF invoked THEN [called |-> TRUE, rv |-> rv] ELSE NoSel]

\* get_locale() lines 256-269 on a namespace c, the selector yielding rv if it
\* is invoked: the value returned, the namespace afterwards, the invocation.
ResolveLocale(c, rv) ==
    LET memo == GetAttr(c, "babel_locale") IN
    IF memo # None
    THEN [ret |-> memo, ctx |-> c, sel |-> NoSel]
    ELSE LET invoked == babel.locale_selector
             locale == IF ~invoked THEN default_locale
                       ELSE IF rv = None THEN default_locale
                       ELSE LocaleParse(rv.s)
         IN [ret |-> locale,
             ctx |-> [c EXCEPT !.babel_locale = locale],
             sel |-> IF invoked THEN [called |-> TRUE, rv |-> rv] ELSE NoSel]

CountLocale(n, sel) == IF sel.called THEN [n EXCEPT !.locale = Bump(@)] ELSE n
CountTz(n, sel) == IF sel.called THEN [n EXCEPT !.tz = Bump(@)] ELSE n

get_locale(t) ==
    /\ t \in pool
    /\ IF ~InRequest(t)
       THEN /\ last' = Plain("get_locale", t, None, None, FALSE, NoSel)
            /\ UNCHANGED <<ctx, calls>>
       ELSE \E rv \in LocaleSelectorReturns :
              LET res == ResolveLocale(ctx[t], rv) IN
              /\ ctx' = [ctx EXCEPT ![t] = res.ctx]
              /\ calls' = [calls EXCEPT ![t] = CountLocale(@, res.sel)]
              /\ last' = Plain("get_locale", t, None, res.ret, FALSE, res.sel)
    /\ UNCHANGED <<babel, fs, pool, apps, date_formats, tree, building, lazy, active, stack, cache, nextObj>>

\* ---------------------------------------------------------- get_timezone
\* get_timezone() that takes a selector's value for an identifier whatever it
\* is: a structured timezone goes through timezone() again and is not found.
ResolveTimezoneStringsOnly(c, rv) ==
    LET memo == GetAttr(c, "babel_tzinfo") IN
    IF memo # None
    THEN [ret |-> memo, ctx |-> c, sel |-> NoSel]
    ELSE LET invoked == babel.timezone_selector
             tzinfo == IF ~invoked THEN default_timezone
                       ELSE IF rv = None THEN default_timezone
                       ELSE IF rv.k = "str" THEN timezone(rv.s) ELSE default_timezone
         IN [ret |-> tzinfo,
             ctx |-> [c EXCEPT !.babel_tzinfo = tzinfo],
             sel |-> IF invoked THEN [called |-> TRUE, rv |-> rv] ELSE NoSel]

\* get_timezone() lines 277-289 on a namespace c.
ResolveTimezone(c, rv) ==
    LET memo == GetAttr(c, "babel_tzinfo") IN
    IF memo # None
    THEN [ret |-> memo, ctx |-> c, sel |-> NoSel]
    ELSE LET invoked == babel.timezone_selector
             tzinfo == IF ~invoked THEN default_timezone
                       ELSE IF rv = None THEN default_timezone
                       ELSE IF rv.k = "str" THEN timezone(rv.s) ELSE rv
         IN [ret |-> tzinfo,
             ctx |-> [c EXCEPT !.babel_tzinfo = tzinfo],
             sel |-> IF invoked THEN [called |-> TRUE, rv |-> rv] ELSE NoSel]

\* Outside a request ctx is None: getattr(None, ...) gives None and get_babel()
\* then reads current_app, which is unbound there and raises RuntimeError.
get_timezone(t) ==
    /\ t \in pool
    /\ IF ~InRequest(t)
       THEN /\ last' = Plain("get_timezone", t, None, None, TRUE, NoSel)
            /\ UNCHANGED <<ctx, calls>>
       ELSE \E rv \in TimezoneSelectorReturns :
              LET res == ResolveTimezone(ctx[t], rv) IN
              /\ ctx' = [ctx EXCEPT ![t] = res.ctx]
              /\ calls' = [calls EXCEPT ![t] = CountTz(@, res.sel)]
              /\ last' = Plain("get_timezone", t, None, res.ret, FALSE, res.sel)
    /\ UNCHANGED <<babel, fs, pool, apps, date_formats, tree, building, lazy, active, stack, cache, nextObj>>

\* --------------------------------------------------------------- refresh
\* refresh() whose loop leaves "babel_locale" out.
RefreshedKeepsLocale(c) ==
    LET cleared == [c EXCEPT !.babel_tzinfo = Absent, !.babel_translations = Absent]
    IN IF HasAttr(c, "forced_babel_locale")
       THEN [cleared EXCEPT !.babel_locale = c.forced_babel_locale]
       ELSE cleared

\* refresh() without its last two lines: the override is not put back.
RefreshedDropsOverride(c) ==
    [c EXCEPT !.babel_locale = Absent, !.babel_tzinfo = Absent,
              !.babel_translations = Absent]

\* refresh() lines 305-311 on a namespace c.
Refreshed(c) ==
    LET cleared == [c EXCEPT !.babel_locale = Absent, !.babel_tzinfo = Absent,
                             !.babel_translations = Absent]
    IN IF HasAttr(c, "forced_babel_locale")
       THEN [cleared EXCEPT !.babel_locale = c.forced_babel_locale]
       ELSE cleared

\* refresh() on a namespace that all requests share: it clears every
\* request's memoized values.
refreshEveryContext(t) ==
    /\ t \in pool
    /\ IF ~InRequest(t)
       THEN UNCHANGED <<ctx, calls>>
       ELSE /\ ctx' = [u \in Threads |-> IF active[u] THEN Refreshed(ctx[u]) ELSE ctx[u]]
            /\ calls' = [calls EXCEPT ![t] = NoCalls]
    /\ last' = Plain("refresh", t, GetAttr(ctx[t], "babel_locale"), None, FALSE, NoSel)
    /\ UNCHANGED <<babel, fs, pool, apps, date_formats, tree, building, lazy, active, stack, cache, nextObj>>

\* refresh() that also empties every Domain's translation cache.
refreshDropsCache(t) ==
    /\ t \in pool
    /\ IF ~InRequest(t)
       THEN UNCHANGED <<ctx, calls>>
       ELSE /\ ctx' = [ctx EXCEPT ![t] = Refreshed(@)]
            /\ calls' = [calls EXCEPT ![t] = NoCalls]
    /\ cache' = [d \in DOMAIN cache |-> <<>>]
    /\ last' = Plain("refresh", t, GetAttr(ctx[t], "babel_locale"), None, FALSE, NoSel)
    /\ UNCHANGED <<babel, fs, pool, apps, date_formats, tree, building, lazy, active, stack, nextObj>>

\* Outside a request ctx is None: hasattr(None, key) is False for every key.
refresh(t) ==
    /\ t \in pool
    /\ IF ~InRequest(t)
       THEN UNCHANGED <<ctx, calls>>
       ELSE /\ ctx' = [ctx EXCEPT ![t] = Refreshed(@)]
            /\ calls' = [calls EXCEPT ![t] = NoCalls]
    /\ last' = Plain("refresh", t, GetAttr(ctx[t], "babel_locale"), None, FALSE, NoSel)
    /\ UNCHANGED <<babel, fs, pool, apps, date_formats, tree, building, lazy, active, stack, cache, nextObj>>

\* force_locale() without lines 329-331: it takes orig_attrs and restores them
\* whether or not there is a context.
ForceFrameAlwaysBound(t, locale) ==
    [bound |-> TRUE,
     orig |-> [babel_translations |-> GetAttr(ctx[t], "babel_translations"),
               babel_locale |-> GetAttr(ctx[t], "babel_locale")],
     locale |-> LocaleParse(locale)]

\* ---------------------------------------------------------- force_locale
\* force_locale(locale) up to its yield, lines 328-341: the frame the generator
\* keeps (whether it saw a context, and orig_attrs) and the namespace it leaves.
\* The frame also notes the locale it forced.
ForceFrame(t, locale) ==
    IF ~InRequest(t)
    THEN [bound |-> FALSE, orig |-> [babel_translations |-> None, babel_locale |-> None],
          locale |-> LocaleParse(locale)]
    ELSE [bound |-> TRUE,
          orig |-> [babel_translations |-> GetAttr(ctx[t], "babel_translations"),
                    babel_locale |-> GetAttr(ctx[t], "babel_locale")],
          locale |-> LocaleParse(locale)]

Forced(c, locale) ==
    [c EXCEPT !.babel_locale = LocaleParse(locale),
              !.forced_babel_locale = LocaleParse(locale),
              !.babel_translations = None]

force_locale_enter(t, locale) ==
    /\ t \in pool
    /\ Len(stack[t]) < MaxDepth
    /\ stack' = [stack EXCEPT ![t] =
                    Append(@, [frame |-> ForceFrame(t, locale),
                               before |-> GetAttr(ctx[t], "babel_locale")])]
    /\ IF ~InRequest(t)
       THEN UNCHANGED <<ctx, calls>>
       ELSE /\ ctx' = [ctx EXCEPT ![t] = Forced(@, locale)]
            /\ calls' = [calls EXCEPT ![t] = NoCalls]
    /\ last' = Plain("force_locale_enter", t, Str(locale), None, FALSE, NoSel)
    /\ UNCHANGED <<babel, fs, pool, apps, date_formats, tree, building, lazy, active, cache, nextObj>>

\* A finally clause that drops the override and restores nothing else.
RestoredKeepsLocale(c, orig) == [c EXCEPT !.forced_babel_locale = Absent]

\* A finally clause that restores the attributes and leaves the override of
\* the block that ends on the context.
RestoredKeepsOverride(c, orig) ==
    [c EXCEPT !.babel_translations = orig.babel_translations,
              !.babel_locale = orig.babel_locale]

\* The finally clause of force_locale, lines 342-347, for the frame's orig_attrs.
Restored(c, orig) ==
    [c EXCEPT !.forced_babel_locale = Absent,
              !.babel_translations = orig.babel_translations,
              !.babel_locale = orig.babel_locale]

\* The block ends, normally or because its body raised (the exception then
\* leaves the block after the finally clause has run).
force_locale_exit(t, exc) ==
    /\ t \in pool
    /\ stack[t] # <<>>
    /\ LET top == stack[t][Len(stack[t])]
           frame == top.frame
       IN
       /\ stack' = [stack EXCEPT ![t] = SubSeq(@, 1, Len(@) - 1)]
       /\ IF ~frame.bound
          THEN UNCHANGED <<ctx, calls>>
          ELSE /\ ctx' = [ctx EXCEPT ![t] = Restored(@, frame.orig)]
               /\ calls' = [calls EXCEPT ![t] = NoCalls]
       /\ last' = Plain("force_locale_exit", t, frame.locale, top.before, exc, NoSel)
    /\ UNCHANGED <<babel, fs, pool, apps, date_formats, tree, building, lazy, active, cache, nextObj>>

\* ------------------------------------------------------ request lifecycle
\* The host pushes a context for a request: flask.g is bound and
\* _get_current_context() hands out a fresh SimpleNamespace for it.
BeginRequest(t) ==
    /\ t \in pool
    /\ ~active[t]
    /\ stack[t] = <<>>
    /\ active' = [active EXCEPT ![t] = TRUE]
    /\ ctx' = [ctx EXCEPT ![t] = EmptyNamespace]
    /\ calls' = [calls EXCEPT ![t] = NoCalls]
    /\ last' = Plain("begin_request", t, None, None, FALSE, NoSel)
    /\ UNCHANGED <<babel, fs, pool, apps, date_formats, tree, building, lazy, stack, cache, nextObj>>

\* The request ends: its context, and g._flask_babel with it, is discarded.
EndRequest(t) ==
    /\ t \in pool
    /\ active[t]
    /\ stack[t] = <<>>
    /\ active' = [active EXCEPT ![t] = FALSE]
    /\ ctx' = [ctx EXCEPT ![t] = EmptyNamespace]
    /\ calls' = [calls EXCEPT ![t] = NoCalls]
    /\ last' = Plain("end_request", t, None, None, FALSE, NoSel)
    /\ UNCHANGED <<babel, fs, pool, apps, date_formats, tree, building, lazy, stack, cache, nextObj>>

\* ------------------------------------------------- compiled catalogs on disk
\* The translation directories and plugin packages that can be configured.
Dirs == {"d1", "d2", "d3"}
Pkgs == {"p1", "p2"}
\* The keys of the catalogs: two message ids and one message id with a context.
MsgIds == {"x", "y", "menu|x"}

\* What a directory or package holds for a (locale, domain): no .mo file, a
\* file that does not parse, or a catalog: without a header entry, with a
\* header that has no Plural-Forms line, or with a header that has one.
Shapes == {"missing", "corrupt", "plain", "header", "plural"}
FileKeys(shape) ==
    CASE shape = "plain" -> {"x"}
      [] shape = "header" -> {"y"}
      [] shape = "plural" -> {"x", "y", "menu|x"}
      [] OTHER -> {}
HasHeader(shape) == shape \in {"header", "plural"}
HasPluralForms(shape) == shape = "plural"

NoMsg == [k |-> "NoMsg"]
\* The translation a source's catalog gives a message id.
Msg(src, locale, domain) == [k |-> "msg", src |-> src, locale |-> locale, domain |-> domain]
\* lambda n: int(n != 1), the plural rule every translations object starts with.
Germanic == [k |-> "plural", of |-> "germanic"]
\* The plural rule compiled from a catalog's own Plural-Forms header.
PluralOf(src) == [k |-> "plural", of |-> src]

EmptyCatalog == [m \in MsgIds |-> NoMsg]
\* support.NullTranslations(): nothing in it, info() empty.
NullTranslations ==
    [cls |-> "NullTranslations", catalog |-> EmptyCatalog, info |-> FALSE,
     plural |-> Germanic, obj |-> 0]
\* support.Translations(): an empty catalog that can be merged into.
NewTranslations(obj) ==
    [cls |-> "Translations", catalog |-> EmptyCatalog, info |-> FALSE,
     plural |-> Germanic, obj |-> obj]

\* A parsed .mo file (GNUTranslations._parse): its messages, whether the header
\* gave it any info(), and its plural rule, germanic unless Plural-Forms sets it.
Parsed(src, locale, domain) ==
    [cls |-> "GNUTranslations",
     catalog |-> [m \in MsgIds |->
                    IF m \in FileKeys(fs[src]) THEN Msg(src, LocaleStr(locale), domain)
                    ELSE NoMsg],
     info |-> HasHeader(fs[src]),
     plural |-> IF HasPluralForms(fs[src]) THEN PluralOf(src) ELSE Germanic,
     obj |-> 0]

\* support.Translations.load(dirname, [locale], domain), line 630: a
\* NullTranslations when no file is found; a file that does not parse raises.
TranslationsLoad(dirname, locale, domain) ==
    CASE fs[dirname] = "missing" -> [raised |-> FALSE, value |-> NullTranslations]
      [] fs[dirname] = "corrupt" -> [raised |-> TRUE, value |-> NullTranslations]
      [] OTHER -> [raised |-> FALSE, value |-> Parsed(dirname, locale, domain)]

\* A merge in which the messages already there win.
MergeKeepFirst(translations, other) ==
    IF other.cls = "GNUTranslations"
    THEN [translations EXCEPT
            !.catalog = [m \in MsgIds |->
                           IF @[m] # NoMsg THEN @[m] ELSE other.catalog[m]]]
    ELSE translations

\* Translations.merge(other), lines 631 and 646: dict.update of the messages
\* when other is a GNUTranslations; a NullTranslations is ignored.
Merge(translations, other) ==
    IF other.cls = "GNUTranslations"
    THEN [translations EXCEPT
            !.catalog = [m \in MsgIds |->
                           IF other.catalog[m] # NoMsg THEN other.catalog[m] ELSE @[m]]]
    ELSE translations

\* Lines 636-637 and 649-650: every translations object has a plural attribute,
\* so the guard is info() alone.
CopyPlural(translations, other) ==
    IF other.info THEN [translations EXCEPT !.plural = other.plural] ELSE translations

\* ------------------------------------------- translation directories on disk
\* The folders a translation directory can hold: two named by locale
\* identifiers and one whose name Locale.parse() does not accept.
Folders == {"en", "de_DE", "zh-CN"}
\* A folder is not there, has no LC_MESSAGES directory, has an LC_MESSAGES
\* directory without any .mo file, or has one with a .mo file.
FolderStates == {"absent", "no_LC_MESSAGES", "no_mo", "mo"}
\* A path that is not a directory, and the directories there can be.
NotADirectory == [isdir |-> FALSE, folders |-> [f \in Folders |-> "absent"]]
Directories == {[isdir |-> TRUE, folders |-> fo] : fo \in [Folders -> FolderStates]}
\* The layout that goes with catalogs for both locales in every directory.
EveryLocaleCompiled ==
    [d \in Dirs |-> [isdir |-> TRUE,
                     folders |-> [f \in Folders |-> IF f \in LocaleIds THEN "mo"
                                                    ELSE "absent"]]]

\* ---------------------------------------------------------------- Domain
\* The Domain objects of the process: Babel.domain_instance ("default") and one
\* the application made itself, Domain(translation_directories="d3",
\* domain="myapp").
DomainObjects == {"default", "custom"}
\* "messages;myapp".split(";"), line 581.
DomainSplit(domain) ==
    CASE domain = "messages" -> <<"messages">>
      [] domain = "myapp" -> <<"myapp">>
      [] domain = "messages;myapp" -> <<"messages", "myapp">>
\* Babel.domain_instance: Domain(domain=self.domain), nothing else passed; the
\* custom Domain has its own directory (a str becomes a one-element list,
\* lines 573-575) and takes the plugin packages of the application.
Domain(d) ==
    IF d = "default"
    THEN [domain |-> DomainSplit(babel.default_domain),
          translation_directories |-> None, plugin_translation_packages |-> None]
    ELSE [domain |-> DomainSplit("myapp"),
          translation_directories |-> [k |-> "list", v |-> <<"d3">>],
          plugin_translation_packages |-> None]
\* Domain.translation_directories / plugin_translation_packages (properties):
\* the Domain's own list, else the application's.
translation_directories(d) ==
    IF Domain(d).translation_directories # None THEN Domain(d).translation_directories.v
    ELSE babel.translation_directories
plugin_translation_packages(d) ==
    IF Domain(d).plugin_translation_packages # None
    THEN Domain(d).plugin_translation_packages.v
    ELSE babel.plugin_translation_packages

\* The build in progress: the composite, the reads made so far, whether it raised.
Build(translations, io, raised) == [translations |-> translations, io |-> io, raised |-> raised]
Read(src, domain) == [src |-> src, domain |-> domain]

\* A directory loop that treats a catalog that does not parse as the plugin
\* loop does: it goes on to the next directory.
DirectoryStepSkipsCorrupt(acc, names, dirs, locale, index) ==
    IF Len(names) # 1 /\ index > Len(names)
    THEN Build(acc.translations, acc.io, TRUE)
    ELSE LET domain == IF Len(names) = 1 THEN names[1] ELSE names[index]
             res == TranslationsLoad(dirs[index], locale, domain)
             io == Append(acc.io, Read(dirs[index], domain))
         IN IF res.raised THEN Build(acc.translations, io, FALSE)
            ELSE Build(CopyPlural(Merge(acc.translations, res.value), res.value), io, FALSE)

\* One round of the directory loop, lines 626-637, for the directory at index.
DirectoryStep(acc, names, dirs, locale, index) ==
    IF Len(names) # 1 /\ index > Len(names)
    THEN Build(acc.translations, acc.io, TRUE)
    ELSE LET domain == IF Len(names) = 1 THEN names[1] ELSE names[index]
             res == TranslationsLoad(dirs[index], locale, domain)
             io == Append(acc.io, Read(dirs[index], domain))
         IN IF res.raised THEN Build(acc.translations, io, TRUE)
            ELSE Build(CopyPlural(Merge(acc.translations, res.value), res.value), io, FALSE)

RECURSIVE LoadDirectories(_, _, _, _, _)
LoadDirectories(acc, names, dirs, locale, index) ==
    IF acc.raised \/ index > Len(dirs) THEN acc
    ELSE LoadDirectories(DirectoryStep(acc, names, dirs, locale, index),
                         names, dirs, locale, index + 1)

\* A plugin loop without the except FileNotFoundError clause of lines 651-652.
PluginStepMissingRaises(acc, names, pkg, locale) ==
    LET io == Append(acc.io, Read(pkg, names[1])) IN
    CASE fs[pkg] = "missing" -> Build(acc.translations, io, TRUE)
      [] fs[pkg] = "corrupt" -> Build(acc.translations, io, FALSE)
      [] OTHER ->
           LET plugin_trans == Parsed(pkg, locale, names[1]) IN
           Build(CopyPlural(Merge(acc.translations, plugin_trans), plugin_trans), io, FALSE)

\* A plugin loop without the except Exception clause of lines 653-654.
PluginStepCorruptRaises(acc, names, pkg, locale) ==
    LET io == Append(acc.io, Read(pkg, names[1])) IN
    CASE fs[pkg] = "missing" -> Build(acc.translations, io, FALSE)
      [] fs[pkg] = "corrupt" -> Build(acc.translations, io, TRUE)
      [] OTHER ->
           LET plugin_trans == Parsed(pkg, locale, names[1]) IN
           Build(CopyPlural(Merge(acc.translations, plugin_trans), plugin_trans), io, FALSE)

\* One round of the plugin loop, lines 638-654: FileNotFoundError and every
\* other Exception leave the composite as it is and go on to the next package.
PluginStep(acc, names, pkg, locale) ==
    LET io == Append(acc.io, Read(pkg, names[1])) IN
    CASE fs[pkg] = "missing" -> Build(acc.translations, io, FALSE)
      [] fs[pkg] = "corrupt" -> Build(acc.translations, io, FALSE)
      [] OTHER ->
           LET plugin_trans == Parsed(pkg, locale, names[1]) IN
           Build(CopyPlural(Merge(acc.translations, plugin_trans), plugin_trans), io, FALSE)

RECURSIVE LoadPlugins(_, _, _, _, _)
LoadPlugins(acc, names, pkgs, locale, index) ==
    IF acc.raised \/ index > Len(pkgs) THEN acc
    ELSE LoadPlugins(PluginStep(acc, names, pkgs[index], locale),
                     names, pkgs, locale, index + 1)

\* Lines 624-654: the composite for a locale from the directories, then the packages.
Composite(names, dirs, pkgs, locale, obj) ==
    LoadPlugins(LoadDirectories(Build(NewTranslations(obj), <<>>, FALSE),
                                names, dirs, locale, 1),
                names, pkgs, locale, 1)

CacheKey(d, locale) == <<LocaleStr(locale), Domain(d).domain[1]>>
\* A lookup under a key that is never stored (the Locale object, not its str).
CacheHitNever(dict, key) == <<key>> \in DOMAIN dict

\* line 622: cache[str(locale), self.domain[0]] raises KeyError on a miss.
CacheHit(dict, key) == key \in DOMAIN dict

\* Domain.get_translations() inside a request, lines 619-657, for the locale
\* get_locale() gave: what it returns or that it raised, its reads, and the
\* cache dict afterwards.
DomainGetTranslations(d, dict, locale, obj) ==
    LET key == CacheKey(d, locale) IN
    IF CacheHit(dict, key)
    THEN [ret |-> dict[key], raised |-> FALSE, io |-> <<>>, key |-> key, hit |-> TRUE,
          dict |-> dict]
    ELSE LET b == Composite(Domain(d).domain, translation_directories(d),
                            plugin_translation_packages(d), locale, obj)
         IN IF b.raised
            THEN [ret |-> None, raised |-> TRUE, io |-> b.io, key |-> key, hit |-> FALSE,
                  dict |-> dict]
            ELSE [ret |-> b.translations, raised |-> FALSE, io |-> b.io, key |-> key,
                  hit |-> FALSE, dict |-> (key :> b.translations) @@ dict]

\* A reference to Domain object d, as ctx.babel_domain holds it.
DomainRef(d) == [k |-> "Domain", name |-> d]

\* get_domain(), lines 759-771, inside a request: the request's active domain,
\* set to the Babel instance's domain_instance when none is set yet.
ActiveDomain(c) ==
    IF HasAttr(c, "babel_domain") THEN c.babel_domain
    ELSE DomainRef("default")

\* get_translations() = get_domain().get_translations().  Outside a request
\* get_domain() makes a fresh Domain() whose get_translations() returns a
\* NullTranslations before it touches anything.
get_translations(t) ==
    /\ t \in pool
    /\ IF ~InRequest(t)
       THEN /\ last' = Plain("get_translations", t, None, NullTranslations, FALSE, NoSel)
            /\ UNCHANGED <<ctx, calls, cache, nextObj>>
       ELSE \E rv \in LocaleSelectorReturns :
              LET dom == ActiveDomain(ctx[t])
                  loc == ResolveLocale([ctx[t] EXCEPT !.babel_domain = dom], rv)
                  res == DomainGetTranslations(dom.name, cache[dom.name], loc.ret, nextObj)
              IN /\ res.hit \/ nextObj <= MaxObjects
                 /\ ctx' = [ctx EXCEPT ![t] = loc.ctx]
                 /\ calls' = [calls EXCEPT ![t] = CountLocale(@, loc.sel)]
                 /\ cache' = [cache EXCEPT ![dom.name] = res.dict]
                 /\ nextObj' = IF res.hit \/ res.raised THEN nextObj ELSE nextObj + 1
                 /\ last' = Call("get_translations", t, None, res.ret, res.raised,
                                 loc.sel, res.io, res.key, res.hit)
    /\ UNCHANGED <<babel, fs, pool, apps, date_formats, tree, building, lazy, active, stack>>

\* ------------------------------------- get_translations(), step by step
\* A call of Domain.get_translations() that has missed the cache: the Domain,
\* the key, the locale, its own `translations` with the reads made so far, and
\* the position in directories-then-packages it loads next.
Building(d, key, locale, acc, next, sel) ==
    [k |-> "building", d |-> d, key |-> key, locale |-> locale, acc |-> acc,
     next |-> next, sel |-> sel]

\* A lookup that, on a miss, files the empty composite under the key at once
\* and lets the loops fill it later.
get_translations_lookupStoresFirst(t) ==
    /\ t \in pool
    /\ InRequest(t)
    /\ building[t] = None
    /\ \E rv \in LocaleSelectorReturns :
         LET dom == ActiveDomain(ctx[t])
             loc == ResolveLocale([ctx[t] EXCEPT !.babel_domain = dom], rv)
             key == CacheKey(dom.name, loc.ret)
         IN /\ ctx' = [ctx EXCEPT ![t] = loc.ctx]
            /\ calls' = [calls EXCEPT ![t] = CountLocale(@, loc.sel)]
            /\ IF CacheHit(cache[dom.name], key)
               THEN /\ last' = Call("get_translations", t, None, cache[dom.name][key],
                                    FALSE, loc.sel, <<>>, key, TRUE)
                    /\ UNCHANGED <<building, nextObj, cache>>
               ELSE /\ nextObj <= MaxObjects
                    /\ building' = [building EXCEPT ![t] =
                         Building(dom.name, key, loc.ret,
                                  Build(NewTranslations(nextObj), <<>>, FALSE), 1, loc.sel)]
                    /\ nextObj' = nextObj + 1
                    /\ cache' = [cache EXCEPT ![dom.name] =
                                   (key :> NewTranslations(nextObj)) @@ @]
                    /\ last' = Call("lookup", t, None, None, FALSE, loc.sel, <<>>, key, FALSE)
    /\ UNCHANGED <<babel, fs, pool, apps, date_formats, tree, lazy, active, stack>>

\* Lines 614-624: the context, the locale, the cache lookup; a hit returns the
\* cached object, a miss makes a new support.Translations() of the call's own.
get_translations_lookup(t) ==
    /\ t \in pool
    /\ InRequest(t)
    /\ building[t] = None
    /\ \E rv \in LocaleSelectorReturns :
         LET dom == ActiveDomain(ctx[t])
             loc == ResolveLocale([ctx[t] EXCEPT !.babel_domain = dom], rv)
             key == CacheKey(dom.name, loc.ret)
         IN /\ ctx' = [ctx EXCEPT ![t] = loc.ctx]
            /\ calls' = [calls EXCEPT ![t] = CountLocale(@, loc.sel)]
            /\ IF CacheHit(cache[dom.name], key)
               THEN /\ last' = Call("get_translations", t, None, cache[dom.name][key],
                                    FALSE, loc.sel, <<>>, key, TRUE)
                    /\ UNCHANGED <<building, nextObj>>
               ELSE /\ nextObj <= MaxObjects
                    /\ building' = [building EXCEPT ![t] =
                         Building(dom.name, key, loc.ret,
                                  Build(NewTranslations(nextObj), <<>>, FALSE), 1, loc.sel)]
                    /\ nextObj' = nextObj + 1
                    /\ last' = Call("lookup", t, None, None, FALSE, loc.sel, <<>>, key, FALSE)
    /\ UNCHANGED <<babel, fs, pool, apps, date_formats, tree, lazy, active, stack, cache>>

\* One round of the loops of lines 626-654 on the call's own `translations`:
\* the next directory, or after the directories the next package.  An exception
\* of the directory loop ends the call.
get_translations_load(t) ==
    /\ t \in pool
    /\ building[t] # None
    /\ LET b == building[t]
           names == Domain(b.d).domain
           dirs == translation_directories(b.d)
           pkgs == plugin_translation_packages(b.d)
       IN /\ b.next <= Len(dirs) + Len(pkgs)
          /\ LET acc == IF b.next <= Len(dirs)
                        THEN DirectoryStep(b.acc, names, dirs, b.locale, b.next)
                        ELSE PluginStep(b.acc, names, pkgs[b.next - Len(dirs)], b.locale)
             IN IF acc.raised
                THEN /\ building' = [building EXCEPT ![t] = None]
                     /\ last' = Call("get_translations", t, None, None, TRUE, b.sel,
                                     acc.io, b.key, FALSE)
                ELSE /\ building' = [building EXCEPT ![t] = [b EXCEPT !.acc = acc,
                                                                      !.next = @ + 1]]
                     /\ last' = Call("load", t, None, None, FALSE, b.sel, acc.io, b.key, FALSE)
    /\ UNCHANGED <<babel, fs, pool, apps, date_formats, tree, lazy, active, ctx, stack, calls, cache, nextObj>>

\* Lines 656-657: the finished composite is filed under the key and returned.
get_translations_store(t) ==
    /\ t \in pool
    /\ building[t] # None
    /\ LET b == building[t] IN
       /\ b.next > Len(translation_directories(b.d)) + Len(plugin_translation_packages(b.d))
       /\ cache' = [cache EXCEPT ![b.d] = (b.key :> b.acc.translations) @@ @]
       /\ building' = [building EXCEPT ![t] = None]
       /\ last' = Call("get_translations", t, None, b.acc.translations, FALSE, b.sel,
                       b.acc.io, b.key, FALSE)
    /\ UNCHANGED <<babel, fs, pool, apps, date_formats, tree, lazy, active, ctx, stack, calls, nextObj>>

\* ------------------------------------------------- as_default, get_domain
\* The Domain() that get_domain() makes outside a request, line 763: a new
\* object with the default arguments and an empty cache of its own.
FreshDomain == [k |-> "Domain", name |-> "fresh"]

\* as_default() that installs the Domain on the namespace of every request.
as_defaultEveryRequest(t, d) ==
    /\ t \in pool
    /\ IF ~InRequest(t)
       THEN /\ last' = Plain("as_default", t, DomainRef(d), None, TRUE, NoSel)
            /\ UNCHANGED ctx
       ELSE /\ ctx' = [u \in Threads |-> [ctx[u] EXCEPT !.babel_domain = DomainRef(d)]]
            /\ last' = Plain("as_default", t, DomainRef(d), None, FALSE, NoSel)
    /\ UNCHANGED <<babel, fs, pool, apps, date_formats, tree, building, lazy, active, stack, calls, cache, nextObj>>

\* Domain.as_default(), lines 600-607, on Domain d: RuntimeError("No request
\* context") without a context, else ctx.babel_domain = self.
as_default(t, d) ==
    /\ t \in pool
    /\ IF ~InRequest(t)
       THEN /\ last' = Plain("as_default", t, DomainRef(d), None, TRUE, NoSel)
            /\ UNCHANGED ctx
       ELSE /\ ctx' = [ctx EXCEPT ![t].babel_domain = DomainRef(d)]
            /\ last' = Plain("as_default", t, DomainRef(d), None, FALSE, NoSel)
    /\ UNCHANGED <<babel, fs, pool, apps, date_formats, tree, building, lazy, active, stack, calls, cache, nextObj>>

\* get_domain(), lines 759-771.
get_domain(t) ==
    /\ t \in pool
    /\ IF ~InRequest(t)
       THEN /\ last' = Plain("get_domain", t, None, FreshDomain, FALSE, NoSel)
            /\ UNCHANGED ctx
       ELSE /\ ctx' = [ctx EXCEPT ![t].babel_domain = ActiveDomain(ctx[t])]
            /\ last' = Plain("get_domain", t, None, ActiveDomain(ctx[t]), FALSE, NoSel)
    /\ UNCHANGED <<babel, fs, pool, apps, date_formats, tree, building, lazy, active, stack, calls, cache, nextObj>>

\* --------------------------------------------------------- list_translations
\* The orders os.listdir() can give the folders in.
ListingOrders ==
    {o \in [1 .. Cardinality(Folders) -> Folders] :
       \A f \in Folders : \E i \in DOMAIN o : o[i] = f}

\* Locale.parse(folder), line 199: raises for a name that is no locale identifier.
ParseFolder(folder) ==
    IF folder \in LocaleIds THEN [raised |-> FALSE, value |-> LocaleParse(folder)]
    ELSE [raised |-> TRUE, value |-> None]

\* Lines 193-199 for one folder of os.listdir(dirname).
ScanFolder(acc, dirname, folder) ==
    IF tree[dirname].folders[folder] # "mo" THEN acc
    ELSE LET parsed == ParseFolder(folder) IN
         IF parsed.raised THEN [result |-> acc.result, raised |-> TRUE]
         ELSE [result |-> Append(acc.result, parsed.value), raised |-> FALSE]

RECURSIVE ScanFolders(_, _, _, _)
ScanFolders(acc, dirname, order, i) ==
    IF acc.raised \/ i > Len(order) THEN acc
    ELSE ScanFolders(ScanFolder(acc, dirname, order[i]), dirname, order, i + 1)

\* Lines 189-199: the loop over the configured directories.
RECURSIVE ScanDirectories(_, _, _, _)
ScanDirectories(acc, dirs, order, i) ==
    IF acc.raised \/ i > Len(dirs) THEN acc
    ELSE ScanDirectories(IF ~tree[dirs[i]].isdir THEN acc
                         ELSE ScanFolders(acc, dirs[i], order, 1),
                         dirs, order, i + 1)

InList(x, seq) == \E i \in DOMAIN seq : seq[i] = x

\* Babel.list_translations(), lines 187-203, os.listdir() listing in order.
ListTranslations(order) ==
    LET found == ScanDirectories([result |-> <<>>, raised |-> FALSE],
                                 babel.translation_directories, order, 1)
    IN IF found.raised \/ InList(default_locale, found.result) THEN found
       ELSE [result |-> Append(found.result, default_locale), raised |-> FALSE]

\* get_babel() at line 189 needs the application context.
list_translations(t) ==
    /\ t \in pool
    /\ IF ~InRequest(t)
       THEN last' = Plain("list_translations", t, None, None, TRUE, NoSel)
       ELSE \E order \in ListingOrders :
              LET res == ListTranslations(order) IN
              last' = Plain("list_translations", t, None,
                            IF res.raised THEN None ELSE [k |-> "list", v |-> res.result],
                            res.raised, NoSel)
    /\ UNCHANGED <<babel, fs, pool, apps, date_formats, tree, building, lazy, active, ctx, stack, calls, cache,
                   nextObj>>

\* ------------------------------------------------------------ date formats
Kinds == {"time", "date", "datetime"}
Widths == {"short", "medium", "full", "long"}
\* "%s.%s" % (key, format), line 358.
WidthKey(key, width) == key \o "." \o width
FormatKeys == Kinds \cup {WidthKey(k, w) : k \in Kinds, w \in Widths}
\* Babel.default_date_formats, lines 61-79: medium for every kind, no override.
default_date_formats == [key \in FormatKeys |-> IF key \in Kinds THEN Str("medium") ELSE None]
\* Format strings that are no width name.
Patterns == {"yyyy", "HH:mm"}

\* date_formats[key]: KeyError when the mapping has no such key (Absent).
DictGet(dict, key) ==
    IF dict[key] = Absent THEN [raised |-> TRUE, value |-> None]
    ELSE [raised |-> FALSE, value |-> dict[key]]

\* _get_format(key, format), lines 355-361, with the configuration at hand.
GetFormat(dict, key, format) ==
    LET first == IF format = None THEN DictGet(dict, key)
                 ELSE [raised |-> FALSE, value |-> format]
    IN IF first.raised THEN first
       ELSE IF first.value \in {Str(w) : w \in Widths}
       THEN LET rv == DictGet(dict, WidthKey(key, first.value.s)) IN
            IF rv.raised THEN rv
            ELSE IF rv.value # None THEN rv ELSE first
       ELSE first

\* get_babel() at line 354 needs the application context.
_get_format(t, key, format) ==
    /\ t \in pool
    /\ IF ~InRequest(t)
       THEN last' = Plain("_get_format", t, [key |-> key, format |-> format], None, TRUE,
                          NoSel)
       ELSE LET res == GetFormat(date_formats, key, format) IN
            last' = Plain("_get_format", t, [key |-> key, format |-> format], res.value,
                          res.raised, NoSel)
    /\ UNCHANGED <<babel, fs, pool, apps, date_formats, tree, building, lazy, active, ctx, stack,
                   calls, cache, nextObj>>

\* ------------------------------------------------------------ applications
\* A plugin package is registered with the current application: it is appended
\* to the list that init_app() creates empty at line 135 and that
\* Domain.plugin_translation_packages reads at line 598.
register_plugin(t, pkg) ==
    /\ t \in pool
    /\ \A i \in DOMAIN babel.plugin_translation_packages :
         babel.plugin_translation_packages[i] # pkg
    /\ babel' = [babel EXCEPT !.plugin_translation_packages = Append(@, pkg)]
    /\ apps' = [apps EXCEPT !.ext[apps.current] = babel']
    /\ last' = Plain("register_plugin", t, Str(pkg), None, FALSE, NoSel)
    /\ UNCHANGED <<fs, pool, date_formats, tree, building, lazy, active, ctx, stack, calls,
                   cache, nextObj>>

\* Between requests the host turns to another application of the process:
\* current_app, and with it get_babel(), is that application's from now on.
app_context(t, a) ==
    /\ t \in pool
    /\ \A u \in Threads : ~active[u]
    /\ a # apps.current
    /\ apps' = [apps EXCEPT !.current = a]
    /\ babel' = apps.ext[a]
    /\ last' = Plain("app_context", t, Str(a), None, FALSE, NoSel)
    /\ UNCHANGED <<fs, pool, date_formats, tree, building, lazy, active, ctx, stack, calls,
                   cache, nextObj>>

\* ------------------------------------------------------- gettext family
\* get_domain().get_translations() as one call of thread t when the locale
\* selector would return rv: what it returns and the state it leaves.  Outside
\* a request get_domain() makes a fresh Domain() and its get_translations()
\* returns a NullTranslations at line 617.
GetTranslations(t, rv) ==
    IF ~InRequest(t)
    THEN [ret |-> NullTranslations, raised |-> FALSE, sel |-> NoSel, io |-> <<>>,
          key |-> NoKey, hit |-> FALSE, ctx |-> ctx[t], cache |-> cache,
          nextObj |-> nextObj]
    ELSE LET dom == ActiveDomain(ctx[t])
             loc == ResolveLocale([ctx[t] EXCEPT !.babel_domain = dom], rv)
             res == DomainGetTranslations(dom.name, cache[dom.name], loc.ret, nextObj)
         IN [ret |-> res.ret, raised |-> res.raised, sel |-> loc.sel, io |-> res.io,
             key |-> res.key, hit |-> res.hit, ctx |-> loc.ctx,
             cache |-> [cache EXCEPT ![dom.name] = res.dict],
             nextObj |-> IF res.hit \/ res.raised THEN nextObj ELSE nextObj + 1]

\* The strings handed to the gettext family: "x" and "y" are message ids that
\* catalogs define, "z" is in no catalog.
Strings == {"x", "y", "z"}
Contexts == {"menu"}
Nums == {1, 2}
\* **variables as the set of its keywords.
VariableSets == {{}, {"name"}}

\* s % variables.
Format(s, variables) == [k |-> "formatted", s |-> s, variables |-> variables]
\* `return s if not variables else s % variables`
Formatted(s, variables) == IF variables = {} THEN s ELSE Format(s, variables)

\* The key a catalog files a message under: the id, or context + EOT + id.
ContextKey(context, string) == context \o "|" \o string
\* The index self.plural(n) picks: int(n != 1) for the germanic rule.
PluralIndex(plural, num) ==
    IF plural = Germanic THEN [k |-> "index", i |-> IF num # 1 THEN 1 ELSE 0]
    ELSE [k |-> "index", rule |-> plural.of, n |-> num]
PluralForm(msg, plural, num) ==
    [k |-> "form", msg |-> msg, index |-> PluralIndex(plural, num)]
Defines(t, key) == key \in DOMAIN t.catalog /\ t.catalog[key] # NoMsg

\* A lookup that gives the empty string for a message without a translation.
ugettextNoFallback(t, string) ==
    IF Defines(t, string) THEN t.catalog[string] ELSE Str("")

\* t.ugettext(string): the catalog's translation, the string itself without one.
ugettext(t, string) ==
    IF Defines(t, string) THEN t.catalog[string] ELSE Str(string)
\* t.ungettext(singular, plural, num)
ungettext(t, singular, plural, num) ==
    IF Defines(t, singular) THEN PluralForm(t.catalog[singular], t.plural, num)
    ELSE Str(IF num = 1 THEN singular ELSE plural)
\* t.upgettext(context, string)
upgettext(t, context, string) ==
    IF Defines(t, ContextKey(context, string))
    THEN t.catalog[ContextKey(context, string)] ELSE Str(string)
\* t.unpgettext(context, singular, plural, num)
unpgettext(t, context, singular, plural, num) ==
    IF Defines(t, ContextKey(context, singular))
    THEN PluralForm(t.catalog[ContextKey(context, singular)], t.plural, num)
    ELSE Str(IF num = 1 THEN singular ELSE plural)

\* The arguments the gettext family is called with.
GettextArgs == [string : Strings, variables : VariableSets]
NgettextArgs ==
    {[string |-> s, plural |-> s \o "s", num |-> n, variables |-> {}] :
       s \in Strings, n \in Nums}
PgettextArgs == [context : Contexts, string : Strings, variables : {{}}]
NpgettextArgs ==
    {[context |-> c, string |-> s, plural |-> s \o "s", num |-> n, variables |-> {}] :
       c \in Contexts, s \in Strings, n \in Nums}
ArgsOf(fn) ==
    CASE fn = "gettext" -> GettextArgs
      [] fn = "ngettext" -> NgettextArgs
      [] fn = "pgettext" -> PgettextArgs
      [] fn = "npgettext" -> NpgettextArgs

\* Domain.gettext / ngettext / pgettext / npgettext after get_translations()
\* has returned tr: the lookup and the formatting.  ngettext and npgettext put
\* num into variables first, so they always format.
Translation(fn, a, tr) ==
    CASE fn = "gettext" -> Formatted(ugettext(tr, a.string), a.variables)
      [] fn = "ngettext" ->
           Formatted(ungettext(tr, a.string, a.plural, a.num), a.variables \cup {"num"})
      [] fn = "pgettext" -> Formatted(upgettext(tr, a.context, a.string), a.variables)
      [] fn = "npgettext" ->
           Formatted(unpgettext(tr, a.context, a.string, a.plural, a.num),
                     a.variables \cup {"num"})

\* A call op of thread t that runs get_domain().<fn>(**a): get_translations(),
\* whose exception it lets through, then the lookup.
Query(t, op, fn, a) ==
    /\ t \in pool
    /\ \E rv \in LocaleSelectorReturns :
         LET got == GetTranslations(t, rv) IN
         /\ (InRequest(t) /\ ~got.hit) => nextObj <= MaxObjects
         /\ ctx' = [ctx EXCEPT ![t] = got.ctx]
         /\ calls' = [calls EXCEPT ![t] = CountLocale(@, got.sel)]
         /\ cache' = got.cache
         /\ nextObj' = got.nextObj
         /\ last' = Call(op, t, [fn |-> fn, a |-> a],
                         IF got.raised THEN None ELSE Translation(fn, a, got.ret),
                         got.raised, got.sel, got.io, got.key, got.hit)
    /\ UNCHANGED <<babel, fs, pool, apps, date_formats, tree, building, lazy, active, stack>>

gettext(t, a) == Query(t, "gettext", "gettext", a)
ngettext(t, a) == Query(t, "ngettext", "ngettext", a)
pgettext(t, a) == Query(t, "pgettext", "pgettext", a)
npgettext(t, a) == Query(t, "npgettext", "npgettext", a)

\* ------------------------------------------------------------ lazy strings
\* LazyString(func, *args, **kwargs): the captured call.  made_inreq notes
\* whether a request was active when it was made, uses the consumptions so far
\* (the locale resolved then and the string produced); neither is read by the
\* program.
LazyString(func, a, inreq) ==
    [k |-> "LazyString", func |-> func, a |-> a, made_inreq |-> inreq, uses |-> {}]

\* Consuming the lazy value as a string once get_translations() has returned
\* tr: the captured call is made now.
LazyValue(lz, tr) == Translation(lz.func, lz.a, tr)

\* A lazy_* that makes the call at once and wraps what it returned.
MakeLazyEager(t, fn, a) ==
    /\ t \in pool
    /\ \E rv \in LocaleSelectorReturns :
         LET got == GetTranslations(t, rv) IN
         /\ (InRequest(t) /\ ~got.hit) => nextObj <= MaxObjects
         /\ ctx' = [ctx EXCEPT ![t] = got.ctx]
         /\ calls' = [calls EXCEPT ![t] = CountLocale(@, got.sel)]
         /\ cache' = got.cache
         /\ nextObj' = got.nextObj
         /\ lazy' = LazyString(fn, a, active[t])
         /\ last' = Call("lazy_" \o fn, t, [fn |-> fn, a |-> a], lazy', got.raised,
                         got.sel, got.io, got.key, got.hit)
    /\ UNCHANGED <<babel, fs, pool, apps, date_formats, tree, building, active, stack>>

\* lazy_gettext / lazy_ngettext / lazy_pgettext / lazy_npgettext, lines
\* 794-806: wrap the module-level function and the arguments, call nothing.
MakeLazy(t, fn, a) ==
    /\ t \in pool
    /\ lazy' = LazyString(fn, a, active[t])
    /\ last' = Plain("lazy_" \o fn, t, [fn |-> fn, a |-> a], lazy', FALSE, NoSel)
    /\ UNCHANGED <<babel, fs, pool, apps, date_formats, tree, building, active, ctx, stack, calls, cache, nextObj>>

lazy_gettext(t, a) == MakeLazy(t, "gettext", a)
lazy_ngettext(t, a) == MakeLazy(t, "ngettext", a)
lazy_pgettext(t, a) == MakeLazy(t, "pgettext", a)
lazy_npgettext(t, a) == MakeLazy(t, "npgettext", a)

\* The lazy value is consumed as a string by thread t: the captured function
\* runs get_domain().<fn>(**a) as a direct call would at this moment.
LazyString_str(t) ==
    /\ t \in pool
    /\ lazy # None
    /\ \E rv \in LocaleSelectorReturns :
         LET got == GetTranslations(t, rv)
             ret == IF got.raised THEN None ELSE LazyValue(lazy, got.ret)
         IN
         /\ (InRequest(t) /\ ~got.hit) => nextObj <= MaxObjects
         /\ ctx' = [ctx EXCEPT ![t] = got.ctx]
         /\ calls' = [calls EXCEPT ![t] = CountLocale(@, got.sel)]
         /\ cache' = got.cache
         /\ nextObj' = got.nextObj
         /\ lazy' = [lazy EXCEPT !.uses =
                       @ \cup {[locale |-> IF InRequest(t) THEN got.ctx.babel_locale
                                           ELSE None,
                                ret |-> ret]}]
         /\ last' = Call("str", t, [fn |-> lazy.func, a |-> lazy.a], ret,
                         got.raised, got.sel, got.io, got.key, got.hit)
    /\ UNCHANGED <<babel, fs, pool, apps, date_formats, tree, building, active, stack>>

\* --------------------------------------------------------- specifications
\* Babel.init_app(), lines 129-139: the configuration of the application.
Configuration(domain, dirs, pkgs, locale_selector, timezone_selector) ==
    [default_locale |-> "en", default_timezone |-> "UTC", default_domain |-> domain,
     translation_directories |-> dirs, plugin_translation_packages |-> pkgs,
     locale_selector |-> locale_selector, timezone_selector |-> timezone_selector]

\* Domain names and directories as configured together: one name for all
\* directories, a name per directory, and fewer names than directories.
Layouts ==
    {[domain |-> "messages", dirs |-> <<"d1", "d2">>],
     [domain |-> "messages;myapp", dirs |-> <<"d1", "d2">>],
     [domain |-> "messages;myapp", dirs |-> <<"d1", "d2", "d3">>]}

Idle ==
    /\ active = [t \in Threads |-> FALSE]
    /\ ctx = [t \in Threads |-> EmptyNamespace]
    /\ stack = [t \in Threads |-> <<>>]
    /\ calls = [t \in Threads |-> NoCalls]
    /\ cache = [d \in DomainObjects |-> <<>>]
    /\ nextObj = 1
    /\ apps = [current |-> "app1", ext |-> [a \in AppNames |-> babel]]
    /\ date_formats = default_date_formats
    /\ tree = EveryLocaleCompiled
    /\ building = [t \in Threads |-> None]
    /\ lazy = None
    /\ last = [op |-> "init", t |-> "r1", inreq |-> FALSE, arg |-> None, ret |-> None,
               raised |-> FALSE, sel |-> NoSel, io |-> <<>>, key |-> NoKey, hit |-> FALSE]

\* Locale and timezone resolution of one request at a time, the selectors set
\* or unset, over one fixed set of catalogs.
Init ==
    /\ \E ls \in BOOLEAN, ts \in BOOLEAN :
         babel = Configuration("messages", <<"d1", "d2">>, <<"p1", "p2">>, ls, ts)
    /\ fs = [s \in Dirs \cup Pkgs |-> IF s = "d1" THEN "plural" ELSE "plain"]
    /\ pool = {"r1"}
    /\ Idle

Next ==
    \E t \in Threads :
      \/ BeginRequest(t)
      \/ EndRequest(t)
      \/ get_locale(t)
      \/ get_timezone(t)
      \/ refresh(t)
      \/ \E locale \in LocaleIds : force_locale_enter(t, locale)
      \/ \E exc \in BOOLEAN : force_locale_exit(t, exc)

Spec == Init /\ [][Next]_vars

\* The translation domain over every content of the directories and packages.
InitCatalog ==
    /\ \E l \in Layouts :
         babel = Configuration(l.domain, l.dirs, <<"p1", "p2">>, TRUE, TRUE)
    /\ fs \in {f \in [Dirs \cup Pkgs -> Shapes] : f["d3"] = "plain"}
    /\ pool = {"r1"}
    /\ Idle

NextCatalog ==
    \E t \in Threads :
      \/ BeginRequest(t)
      \/ EndRequest(t)
      \/ get_translations(t)

SpecCatalog == InitCatalog /\ [][NextCatalog]_vars

\* The gettext family in and outside a request, next to get_locale(),
\* get_translations() and refresh(), over one fixed set of catalogs.
InitGettext ==
    /\ \E ls \in BOOLEAN :
         babel = Configuration("messages", <<"d1", "d2">>, <<"p1", "p2">>, ls, TRUE)
    /\ fs = [s \in Dirs \cup Pkgs |-> IF s = "d1" THEN "plural" ELSE "plain"]
    /\ pool = {"r1"}
    /\ Idle

NextGettext ==
    \E t \in Threads :
      \/ BeginRequest(t)
      \/ EndRequest(t)
      \/ get_locale(t)
      \/ get_translations(t)
      \/ refresh(t)
      \/ \E a \in GettextArgs : gettext(t, a)
      \/ \E a \in NgettextArgs : ngettext(t, a)
      \/ \E a \in PgettextArgs : pgettext(t, a)
      \/ \E a \in NpgettextArgs : npgettext(t, a)

SpecGettext == InitGettext /\ [][NextGettext]_vars

\* Lazy strings made before and inside requests and consumed in requests
\* whose locale selector yields one locale or another.
InitLazy ==
    /\ babel = Configuration("messages", <<"d1", "d2">>, <<"p1", "p2">>, TRUE, TRUE)
    /\ fs = [s \in Dirs \cup Pkgs |-> IF s = "d1" THEN "plural" ELSE "plain"]
    /\ pool = {"r1"}
    /\ Idle

NextLazy ==
    \E t \in Threads :
      \/ BeginRequest(t)
      \/ EndRequest(t)
      \/ refresh(t)
      \/ \E a \in GettextArgs : lazy_gettext(t, a)
      \/ \E a \in NgettextArgs : lazy_ngettext(t, a)
      \/ \E a \in PgettextArgs : lazy_pgettext(t, a)
      \/ \E a \in NpgettextArgs : lazy_npgettext(t, a)
      \/ LazyString_str(t)

SpecLazy == InitLazy /\ [][NextLazy]_vars

\* Two requests at once, each on a thread of its own: every operation of the
\* resolver and as_default(), interleaved in every order.  Both selectors are
\* set; blocks are not nested here.
InitConcurrent ==
    /\ babel = Configuration("messages", <<"d1", "d2">>, <<"p1", "p2">>, TRUE, TRUE)
    /\ fs = [s \in Dirs \cup Pkgs |-> IF s = "d1" THEN "plural" ELSE "plain"]
    /\ pool = Threads
    /\ Idle

NextConcurrent ==
    \E t \in Threads :
      \/ BeginRequest(t)
      \/ EndRequest(t)
      \/ get_locale(t)
      \/ get_timezone(t)
      \/ refresh(t)
      \/ stack[t] = <<>> /\ force_locale_enter(t, "de_DE")
      \/ \E exc \in BOOLEAN : force_locale_exit(t, exc)
      \/ as_default(t, "custom")
      \/ get_domain(t)

SpecConcurrent == InitConcurrent /\ [][NextConcurrent]_vars

\* Two requests at once calling get_translations() on the default Domain, the
\* call taken step by step so that the calls interleave; the second directory
\* holds a catalog or a file that does not parse.
InitRace ==
    /\ babel = Configuration("messages", <<"d1", "d2">>, <<"p1", "p2">>, TRUE, TRUE)
    /\ \E shape \in {"plain", "corrupt"} :
         fs = [s \in Dirs \cup Pkgs |->
                 CASE s = "d1" -> "plural"
                   [] s = "d2" -> shape
                   [] s = "p1" -> "header"
                   [] OTHER -> "plain"]
    /\ pool = Threads
    /\ Idle

NextRace ==
    \E t \in Threads :
      \/ BeginRequest(t)
      \/ building[t] = None /\ EndRequest(t)
      \/ get_translations_lookup(t)
      \/ get_translations_load(t)
      \/ get_translations_store(t)

SpecRace == InitRace /\ [][NextRace]_vars

\* Two requests at once that set and ask the active Domain and translate "x"
\* through it; no locale selector is set, so every request resolves "en".
InitDomain ==
    /\ babel = Configuration("messages", <<"d1", "d2">>, <<"p1", "p2">>, FALSE, FALSE)
    /\ fs = [s \in Dirs \cup Pkgs |-> IF s = "d1" THEN "plural" ELSE "plain"]
    /\ pool = Threads
    /\ Idle

NextDomain ==
    \E t \in Threads :
      \/ BeginRequest(t)
      \/ EndRequest(t)
      \/ refresh(t)
      \/ \E d \in DomainObjects : as_default(t, d)
      \/ get_domain(t)
      \/ gettext(t, [string |-> "x", variables |-> {}])
      \/ ngettext(t, [string |-> "x", plural |-> "xs", num |-> 2, variables |-> {}])
      \/ pgettext(t, [context |-> "menu", string |-> "x", variables |-> {}])
      \/ npgettext(t, [context |-> "menu", string |-> "x", plural |-> "xs", num |-> 2,
                       variables |-> {}])

SpecDomain == InitDomain /\ [][NextDomain]_vars

\* list_translations() over every content of the two configured directories:
\* each is no directory at all, or holds each folder in each of its states.
InitList ==
    /\ babel = Configuration("messages", <<"d1", "d2">>, <<"p1", "p2">>, TRUE, TRUE)
    /\ fs = [s \in Dirs \cup Pkgs |-> IF s = "d1" THEN "plural" ELSE "plain"]
    /\ pool = {"r1"}
    /\ tree \in {tr \in [Dirs -> Directories \cup {NotADirectory}] :
                   tr["d3"] = NotADirectory}
    /\ active = [t \in Threads |-> FALSE]
    /\ ctx = [t \in Threads |-> EmptyNamespace]
    /\ stack = [t \in Threads |-> <<>>]
    /\ calls = [t \in Threads |-> NoCalls]
    /\ cache = [d \in DomainObjects |-> <<>>]
    /\ nextObj = 1
    /\ building = [t \in Threads |-> None]
    /\ lazy = None
    /\ apps = [current |-> "app1", ext |-> [a \in AppNames |-> babel]]
    /\ date_formats = default_date_formats
    /\ last = [op |-> "init", t |-> "r1", inreq |-> FALSE, arg |-> None, ret |-> None,
               raised |-> FALSE, sel |-> NoSel, io |-> <<>>, key |-> NoKey, hit |-> FALSE]

NextList ==
    \E t \in Threads :
      \/ BeginRequest(t)
      \/ EndRequest(t)
      \/ list_translations(t)

SpecList == InitList /\ [][NextList]_vars

\* _get_format() over mappings the application can hand to Babel(date_formats=)
\* or reach by assigning to babel.date_formats: for one kind and one width, the
\* default of the kind and the override of the pair are each left out, None, a
\* width name or a pattern; everything else is as in default_date_formats.
InitFormat ==
    /\ babel = Configuration("messages", <<"d1", "d2">>, <<"p1", "p2">>, TRUE, TRUE)
    /\ fs = [s \in Dirs \cup Pkgs |-> IF s = "d1" THEN "plural" ELSE "plain"]
    /\ pool = {"r1"}
    /\ \E k \in Kinds, w \in Widths :
         \E default \in {Absent, None} \cup {Str(s) : s \in Widths \cup {"yyyy"}},
            override \in {Absent, None, Str("long"), Str("HH:mm")} :
           date_formats = [default_date_formats EXCEPT ![k] = default,
                                                       ![WidthKey(k, w)] = override]
    /\ tree = EveryLocaleCompiled
    /\ active = [t \in Threads |-> FALSE]
    /\ ctx = [t \in Threads |-> EmptyNamespace]
    /\ stack = [t \in Threads |-> <<>>]
    /\ calls = [t \in Threads |-> NoCalls]
    /\ cache = [d \in DomainObjects |-> <<>>]
    /\ nextObj = 1
    /\ building = [t \in Threads |-> None]
    /\ lazy = None
    /\ apps = [current |-> "app1", ext |-> [a \in AppNames |-> babel]]
    /\ last = [op |-> "init", t |-> "r1", inreq |-> FALSE, arg |-> None, ret |-> None,
               raised |-> FALSE, sel |-> NoSel, io |-> <<>>, key |-> NoKey, hit |-> FALSE]

NextFormat ==
    \E t \in Threads :
      \/ BeginRequest(t)
      \/ EndRequest(t)
      \/ \E key \in Kinds, format \in {None} \cup {Str(s) : s \in Widths \cup Patterns} :
           _get_format(t, key, format)

SpecFormat == InitFormat /\ [][NextFormat]_vars

\* init_app() for application a, lines 125-139: its own translation directory,
\* no plugin package yet.
AppConfiguration(a) ==
    Configuration("messages", IF a = "app1" THEN <<"d1">> ELSE <<"d2">>, <<>>, TRUE, TRUE)

\* One Babel instance serving two applications, one request at a time, with
\* plugin packages registered as the process goes.
InitApps ==
    /\ babel = AppConfiguration("app1")
    /\ apps = [current |-> "app1", ext |-> [a \in AppNames |-> AppConfiguration(a)]]
    /\ fs = [s \in Dirs \cup Pkgs |->
               CASE s = "d1" -> "plural"
                 [] s = "p1" -> "header"
                 [] OTHER -> "plain"]
    /\ pool = {"r1"}
    /\ date_formats = default_date_formats
    /\ tree = EveryLocaleCompiled
    /\ active = [t \in Threads |-> FALSE]
    /\ ctx = [t \in Threads |-> EmptyNamespace]
    /\ stack = [t \in Threads |-> <<>>]
    /\ calls = [t \in Threads |-> NoCalls]
    /\ cache = [d \in DomainObjects |-> <<>>]
    /\ nextObj = 1
    /\ building = [t \in Threads |-> None]
    /\ lazy = None
    /\ last = [op |-> "init", t |-> "r1", inreq |-> FALSE, arg |-> None, ret |-> None,
               raised |-> FALSE, sel |-> NoSel, io |-> <<>>, key |-> NoKey, hit |-> FALSE]

NextApps ==
    \E t \in Threads :
      \/ BeginRequest(t)
      \/ EndRequest(t)
      \/ get_translations(t)
      \/ \E pkg \in Pkgs : register_plugin(t, pkg)
      \/ \E a \in AppNames : app_context(t, a)

SpecApps == InitApps /\ [][NextApps]_vars

\* One request at a time that translates, refreshes, forces locales and makes
\* another Domain its active one, over one fixed set of catalogs.
InitFrame ==
    /\ babel = Configuration("messages", <<"d1", "d2">>, <<"p1">>, TRUE, TRUE)
    /\ fs = [s \in Dirs \cup Pkgs |-> IF s = "d1" THEN "plural" ELSE "plain"]
    /\ pool = {"r1"}
    /\ Idle

NextFrame ==
    \E t \in Threads :
      \/ BeginRequest(t)
      \/ EndRequest(t)
      \/ get_translations(t)
      \/ refresh(t)
      \/ \E locale \in LocaleIds : force_locale_enter(t, locale)
      \/ \E exc \in BOOLEAN : force_locale_exit(t, exc)
      \/ as_default(t, "custom")

SpecFrame == InitFrame /\ [][NextFrame]_vars

\* ------------------------------------------------------------------ claims
\* The call just made was get_translations() inside a request.
Translated == last.op = "get_translations" /\ last.inreq
\* ... and it missed the cache and built a composite without raising.
Built == Translated /\ ~last.hit /\ ~last.raised
\* The Domain that call used, its names and sources, and the locale it resolved.
UsedDomain == ctx[last.t].babel_domain.name
UsedLocale == ctx[last.t].babel_locale
Names == Domain(UsedDomain).domain
ConfiguredDirs == translation_directories(UsedDomain)
ConfiguredPkgs == plugin_translation_packages(UsedDomain)
Without(seq, i) == SubSeq(seq, 1, i - 1) \o SubSeq(seq, i + 1, Len(seq))

\* C1: once get_translations() has returned a composite for a key, the entry
\* stays in the Domain's cache as it is, and every call that finds its key in
\* the cache returns that very object, reads no catalog and does not raise.
C1_CacheHitSameInstance ==
    [][/\ \A d \in DomainObjects : \A key \in DOMAIN cache[d] :
            key \in DOMAIN cache'[d] /\ cache'[d][key] = cache[d][key]
       /\ Translated' =>
            /\ ~last'.raised => cache'[UsedDomain'][last'.key] = last'.ret
            /\ last'.key \in DOMAIN cache[UsedDomain'] =>
                 /\ ~last'.raised
                 /\ last'.ret = cache[UsedDomain'][last'.key]
                 /\ last'.io = <<>>
                 /\ cache' = cache]_vars

\* A call served from the cache.
C1_Witness ==
    /\ Translated
    /\ last.hit
    /\ last.ret.obj >= 1
    /\ last.io = <<>>

\* The sources in merge order (directories, then packages), each with the
\* domain name it is read with.
MergeOrder ==
    [i \in 1 .. Len(ConfiguredDirs) + Len(ConfiguredPkgs) |->
       IF i <= Len(ConfiguredDirs)
       THEN Read(ConfiguredDirs[i], IF Len(Names) = 1 THEN Names[1] ELSE Names[i])
       ELSE Read(ConfiguredPkgs[i - Len(ConfiguredDirs)], Names[1])]
\* The positions in merge order whose catalog was found and defines m.
Defining(m) == {i \in DOMAIN MergeOrder : m \in FileKeys(fs[MergeOrder[i].src])}
LastOf(S) == CHOOSE i \in S : \A j \in S : j <= i

\* C2: the composite built on a cache miss holds, for every message id, the
\* translation of the last source in merge order (directories in order, then
\* packages in order) whose catalog defines it, and nothing for a message id
\* that no catalog defines.
C2_MergeOrderLastWins ==
    Built =>
      \A m \in MsgIds :
        last.ret.catalog[m] =
          IF Defining(m) = {} THEN NoMsg
          ELSE Msg(MergeOrder[LastOf(Defining(m))].src, last.key[1],
                   MergeOrder[LastOf(Defining(m))].domain)

\* A composite in which a package's translation replaced a directory's.
C2_Witness ==
    /\ Built
    /\ "x" \in FileKeys(fs["d1"])
    /\ last.ret.catalog["x"] # NoMsg
    /\ last.ret.catalog["x"].src = "p2"
    /\ last.ret.catalog["y"] # NoMsg
    /\ last.ret.catalog["y"].src \in Dirs

\* The positions in merge order whose catalog was merged and states Plural-Forms.
DefiningPlural == {i \in DOMAIN MergeOrder : HasPluralForms(fs[MergeOrder[i].src])}

\* C3: the composite's plural rule is the one of the last merged constituent
\* that defines plural logic; a later constituent without plural logic leaves
\* it alone.
C3_PluralOfLastDefining ==
    Built =>
      last.ret.plural =
        IF DefiningPlural = {} THEN Germanic
        ELSE PluralOf(MergeOrder[LastOf(DefiningPlural)].src)

\* C4: get_translations() never fails, whatever is configured and wherever it
\* is called.
C4_NeverFails == last.op = "get_translations" => ~last.raised

\* The composite the same configuration yields with the package at position i
\* left out.
CompositeWithout(i) ==
    Composite(Names, ConfiguredDirs, Without(ConfiguredPkgs, i), UsedLocale, 0)
SameContent(a, b) == a.catalog = b.catalog /\ a.plural = b.plural
\* The packages after position i were read by the call.
LaterConsulted(i) ==
    \A j \in i + 1 .. Len(ConfiguredPkgs) :
      \E n \in DOMAIN last.io : last.io[n] = Read(ConfiguredPkgs[j], Names[1])

\* C5: a configured package without a catalog for the locale and domain does not
\* make the call raise, leaves strings and plural rule as they are without that
\* package, and the packages after it are still read.
C5_MissingPluginIsNeutral ==
    (Translated /\ ~last.hit) =>
      \A i \in DOMAIN ConfiguredPkgs :
        fs[ConfiguredPkgs[i]] = "missing" =>
          /\ last.raised = CompositeWithout(i).raised
          /\ ~last.raised =>
               /\ SameContent(last.ret, CompositeWithout(i).translations)
               /\ LaterConsulted(i)

\* The first package has no catalog, the second one has and is merged.
C5_Witness ==
    /\ Built
    /\ fs["p1"] = "missing"
    /\ last.ret.catalog["x"] # NoMsg
    /\ last.ret.catalog["x"].src = "p2"

\* C6: a package whose catalog cannot be read is skipped and nothing else is:
\* the call does not raise because of it, the composite is the one of the
\* configuration without that package, later packages are read, and the
\* composite is stored under the key and returned.
C6_BrokenPluginIsSkipped ==
    (Translated /\ ~last.hit) =>
      \A i \in DOMAIN ConfiguredPkgs :
        fs[ConfiguredPkgs[i]] = "corrupt" =>
          /\ last.raised = CompositeWithout(i).raised
          /\ ~last.raised =>
               /\ SameContent(last.ret, CompositeWithout(i).translations)
               /\ LaterConsulted(i)
               /\ last.key \in DOMAIN cache[UsedDomain]
               /\ cache[UsedDomain][last.key] = last.ret

\* The first package is broken; a directory and the second package are merged.
C6_Witness ==
    /\ Built
    /\ fs["p1"] = "corrupt"
    /\ last.ret.catalog["x"] # NoMsg
    /\ last.ret.catalog["x"].src = "p2"
    /\ last.ret.catalog["y"] # NoMsg
    /\ last.ret.catalog["y"].src \in Dirs

\* The call read a directory whose catalog does not parse.
ReadCorruptDirectory ==
    /\ last.io # <<>>
    /\ last.io[Len(last.io)].src \in Dirs
    /\ fs[last.io[Len(last.io)].src] = "corrupt"

\* A configured directory holds a catalog that does not parse.
SomeDirectoryCorrupt == \E i \in DOMAIN ConfiguredDirs : fs[ConfiguredDirs[i]] = "corrupt"

Top(t) == stack[t][Len(stack[t])]
\* The step is a call of op by t inside a request.
Did(op, t) == last'.op = op /\ last'.t = t /\ last'.inreq

\* C8 as claimed: in every open force_locale(L) block of a request get_locale()
\* returns L; when the block ends, normally or by an exception, the context
\* holds no forced locale and get_locale() returns the locale of before.
C8_InsideEveryBlock ==
    [][\A t \in Threads :
         /\ (Did("get_locale", t) /\ stack[t] # <<>>) =>
                last'.ret = Top(t).frame.locale
         /\ Did("force_locale_exit", t) =>
                /\ ~HasAttr(ctx'[t], "forced_babel_locale")
                /\ GetAttr(ctx'[t], "babel_locale") = Top(t).before]_vars

\* C8, amended: in a force_locale(L) block of a request in which no nested
\* block has ended (so its override is still in place), get_locale() returns L
\* and asks no selector; when the block ends, normally or by an exception, the
\* context holds no forced locale and the memoized locale is again what it was
\* when the block was entered, and a get_locale() that follows returns that
\* locale.
C8_ForceLocaleScoped ==
    [][\A t \in Threads :
         /\ (/\ Did("get_locale", t)
             /\ stack[t] # <<>>
             /\ HasAttr(ctx[t], "forced_babel_locale")) =>
                /\ last'.ret = Top(t).frame.locale
                /\ ~last'.sel.called
         /\ Did("force_locale_exit", t) =>
                /\ ~HasAttr(ctx'[t], "forced_babel_locale")
                /\ GetAttr(ctx'[t], "babel_locale") = Top(t).before
         /\ (/\ last.op = "force_locale_exit" /\ last.t = t /\ last.inreq
             /\ last.ret # None
             /\ Did("get_locale", t)) =>
                last'.ret = last.ret]_vars

\* A block that forced another locale than the request's has ended by an
\* exception, and the request's locale is back.
C8_Witness ==
    /\ last.op = "force_locale_exit"
    /\ last.inreq
    /\ last.raised
    /\ last.ret \in Locales
    /\ last.ret # last.arg
    /\ ctx[last.t].babel_locale = last.ret
    /\ ~HasAttr(ctx[last.t], "forced_babel_locale")

\* C9: between two of refresh() and force_locale(), a request invokes each
\* selector at most once; get_locale() / get_timezone() leave their result
\* memoized on the context, and a call that finds a memoized value returns it
\* without invoking the selector, whatever the selector would return.
C9_SelectorsOncePerRequest ==
    [][\A t \in Threads :
         /\ calls'[t].locale <= 1
         /\ calls'[t].tz <= 1
         /\ Did("get_locale", t) =>
              /\ ctx'[t].babel_locale = last'.ret
              /\ GetAttr(ctx[t], "babel_locale") # None =>
                   /\ last'.ret = ctx[t].babel_locale
                   /\ ~last'.sel.called
         /\ Did("get_timezone", t) =>
              /\ ctx'[t].babel_tzinfo = last'.ret
              /\ GetAttr(ctx[t], "babel_tzinfo") # None =>
                   /\ last'.ret = ctx[t].babel_tzinfo
                   /\ ~last'.sel.called]_vars

\* A second get_locale() of a request, answered from the context after both
\* selectors were invoked once, with another locale than the default.
C9_Witness ==
    /\ last.op = "get_locale"
    /\ last.inreq
    /\ ~last.sel.called
    /\ calls[last.t] = [locale |-> 1, tz |-> 1]
    /\ last.ret # default_locale
    /\ stack[last.t] = <<>>

\* C10: refresh() in a request without a forced locale leaves no memoized
\* locale, timezone or translations on the context; a get_locale() /
\* get_timezone() that finds nothing memoized invokes the selector, when one is
\* set, and returns what the selector yields then, the default when it yields
\* none or none is set.
C10_RefreshClears ==
    [][\A t \in Threads :
         /\ (Did("refresh", t) /\ ~HasAttr(ctx[t], "forced_babel_locale")) =>
              /\ ~HasAttr(ctx'[t], "babel_locale")
              /\ ~HasAttr(ctx'[t], "babel_tzinfo")
              /\ ~HasAttr(ctx'[t], "babel_translations")
         /\ (Did("get_locale", t) /\ ~HasAttr(ctx[t], "babel_locale")) =>
              /\ last'.sel.called = babel.locale_selector
              /\ last'.ret = IF last'.sel.called /\ last'.sel.rv # None
                             THEN LocaleParse(last'.sel.rv.s)
                             ELSE default_locale
         /\ (Did("get_timezone", t) /\ ~HasAttr(ctx[t], "babel_tzinfo")) =>
              /\ last'.sel.called = babel.timezone_selector
              /\ last'.ret = IF last'.sel.called /\ last'.sel.rv # None
                             THEN timezone(IF last'.sel.rv.k = "str" THEN last'.sel.rv.s
                                           ELSE last'.sel.rv.zone)
                             ELSE default_timezone]_vars

\* refresh() found a memoized locale and timezone and cleared them.
C10_Witness ==
    /\ last.op = "refresh"
    /\ last.inreq
    /\ last.arg \in Locales
    /\ calls[last.t] = NoCalls
    /\ ~HasAttr(ctx[last.t], "babel_locale")
    /\ ~HasAttr(ctx[last.t], "babel_tzinfo")
    /\ ~HasAttr(ctx[last.t], "forced_babel_locale")

\* The call before this state was refresh() by t inside a request.
Refreshing(t) == last.op = "refresh" /\ last.t = t /\ last.inreq

\* C11 as claimed: in every open force_locale(L) block of a request refresh()
\* leaves L memoized and no timezone, and the get_locale() that follows
\* returns L without invoking the locale selector.
C11_RefreshInEveryBlock ==
    [][\A t \in Threads :
         /\ (Did("refresh", t) /\ stack[t] # <<>>) =>
                /\ GetAttr(ctx'[t], "babel_locale") = Top(t).frame.locale
                /\ ~HasAttr(ctx'[t], "babel_tzinfo")
         /\ (Refreshing(t) /\ stack[t] # <<>> /\ Did("get_locale", t)) =>
                /\ last'.ret = Top(t).frame.locale
                /\ ~last'.sel.called]_vars

\* C11, amended: while the override of a force_locale(L) block is in place on
\* the request context (no block nested in it has ended), refresh() leaves L
\* memoized, the override in place and no memoized timezone or translations,
\* and the get_locale() that follows returns L without invoking the locale
\* selector.
C11_RefreshReappliesOverride ==
    [][\A t \in Threads :
         /\ (/\ Did("refresh", t)
             /\ stack[t] # <<>>
             /\ HasAttr(ctx[t], "forced_babel_locale")) =>
                /\ ctx'[t].babel_locale = Top(t).frame.locale
                /\ ctx'[t].forced_babel_locale = Top(t).frame.locale
                /\ ~HasAttr(ctx'[t], "babel_tzinfo")
                /\ ~HasAttr(ctx'[t], "babel_translations")
         /\ (/\ Refreshing(t)
             /\ stack[t] # <<>>
             /\ HasAttr(ctx[t], "forced_babel_locale")
             /\ Did("get_locale", t)) =>
                /\ last'.ret = Top(t).frame.locale
                /\ ~last'.sel.called]_vars

\* refresh() ran inside a block that forced another locale than the default
\* while a locale selector is set, and the forced locale is memoized again.
C11_Witness ==
    /\ Refreshing(last.t)
    /\ stack[last.t] # <<>>
    /\ babel.locale_selector
    /\ HasAttr(ctx[last.t], "forced_babel_locale")
    /\ ctx[last.t].babel_locale = Top(last.t).frame.locale
    /\ ctx[last.t].babel_locale # default_locale
    /\ ~HasAttr(ctx[last.t], "babel_tzinfo")

\* C12: get_timezone() outside a request returns None, does not raise and
\* invokes no timezone selector.
C12_TimezoneOutsideRequest ==
    (last.op = "get_timezone" /\ ~last.inreq) =>
        /\ last.ret = None
        /\ ~last.raised
        /\ ~last.sel.called

\* The step is a call of op by t outside a request.
DidOutside(op, t) == last'.op = op /\ last'.t = t /\ ~last'.inreq

\* C13: outside a request get_locale() returns None and invokes no selector;
\* get_translations() returns a catalog without any message, reads no catalog
\* file and writes no cache entry; gettext(s) without variables returns s; and
\* none of them raises or changes any state.
C13_OutsideRequestIsIdentity ==
    [][\A t \in Threads :
         /\ DidOutside("get_locale", t) =>
              /\ last'.ret = None
              /\ ~last'.sel.called
              /\ ~last'.raised
              /\ calls' = calls
         /\ DidOutside("get_translations", t) =>
              /\ last'.ret.cls = "NullTranslations"
              /\ \A m \in MsgIds : last'.ret.catalog[m] = NoMsg
              /\ last'.io = <<>>
              /\ ~last'.sel.called
              /\ ~last'.raised
         /\ (DidOutside("gettext", t) /\ last'.arg.a.variables = {}) =>
              /\ last'.ret = Str(last'.arg.a.string)
              /\ last'.io = <<>>
              /\ ~last'.raised
         /\ (\E op \in {"get_locale", "get_translations", "gettext"} : DidOutside(op, t)) =>
              /\ cache' = cache
              /\ nextObj' = nextObj
              /\ ctx' = ctx]_vars

\* gettext("x") outside a request returned "x" while the cache holds a
\* composite, built in a request before, that translates "x".
C13_Witness ==
    /\ last.op = "gettext"
    /\ ~last.inreq
    /\ last.arg.a = [string |-> "x", variables |-> {}]
    /\ last.ret = Str("x")
    /\ \E key \in DOMAIN cache["default"] : cache["default"][key].catalog["x"] # NoMsg

DirectCall(fn, a, locale) ==
    IF locale = None THEN Translation(fn, a, NullTranslations)
    ELSE Translation(fn, a,
                     Composite(Domain("default").domain, translation_directories("default"),
                               plugin_translation_packages("default"), locale, 0).translations)
LazyOps == {"lazy_gettext", "lazy_ngettext", "lazy_pgettext", "lazy_npgettext"}

\* C15: making a lazy value (lazy_gettext, lazy_ngettext, lazy_pgettext,
\* lazy_npgettext) looks nothing up, in or outside a request: no selector is
\* invoked, no catalog read, no cache entry written, no context changed.  Every
\* consumption of it as a string yields what a direct call yields under the
\* locale resolved at that moment, so each string the value has produced is the
\* translation for the locale of the request that consumed it, whatever the
\* value produced before.
C15_LazyLooksUpAtConsumption ==
    [][/\ last'.op \in LazyOps =>
            /\ lazy'.func = last'.arg.fn /\ lazy'.a = last'.arg.a
            /\ lazy'.uses = {}
            /\ last'.ret = lazy'
            /\ ~last'.sel.called /\ last'.io = <<>> /\ ~last'.raised
            /\ cache' = cache /\ ctx' = ctx /\ calls' = calls /\ nextObj' = nextObj
       /\ (last'.op = "str" /\ lazy # None) =>
            LET locale == IF last'.inreq THEN ctx'[last'.t].babel_locale ELSE None IN
            /\ lazy'.func = lazy.func /\ lazy'.a = lazy.a
            /\ ~last'.raised
            /\ last'.ret = DirectCall(lazy.func, lazy.a, locale)
            /\ (last'.inreq /\ ~HasAttr(ctx[last'.t], "babel_locale")) =>
                 /\ last'.sel.called
                 /\ locale = IF last'.sel.rv = None THEN default_locale
                             ELSE LocaleParse(last'.sel.rv.s)
       /\ lazy' # None =>
            \A u \in lazy'.uses : u.ret = DirectCall(lazy'.func, lazy'.a, u.locale)]_vars

\* A lazy_gettext("x") made before any request was consumed in a request that
\* resolved "en" and in one that resolved "de_DE", and gave the translation of
\* each locale.
C15_Witness ==
    /\ lazy # None
    /\ ~lazy.made_inreq
    /\ lazy.func = "gettext"
    /\ last.op = "str"
    /\ \E u, v \in lazy.uses :
         /\ u.locale = LocaleParse("en") /\ v.locale = LocaleParse("de_DE")
         /\ u.ret.k = "msg" /\ v.ret.k = "msg"
         /\ u.ret.locale = "en" /\ v.ret.locale = "de_DE"

\* C16: with two requests running at once, a step of one request (get_locale,
\* get_timezone, refresh, force_locale entered or left, as_default,
\* get_domain) leaves the memoized locale, timezone, forced locale and active
\* domain of the other request, its open blocks and its being in a request as
\* they are; and what get_locale() / get_timezone() / get_domain() return is
\* the value memoized on the caller's own context, else the value derived from
\* the result of the selector invoked in that very call.
C16_RequestsAreIsolated ==
    [][\A t \in Threads : \A u \in Threads \ {t} :
         /\ last'.t = t =>
              /\ ctx'[u] = ctx[u]
              /\ stack'[u] = stack[u]
              /\ active'[u] = active[u]
              /\ calls'[u] = calls[u]
         /\ Did("get_locale", t) =>
              last'.ret = IF GetAttr(ctx[t], "babel_locale") # None
                          THEN ctx[t].babel_locale
                          ELSE IF last'.sel.rv = None THEN default_locale
                          ELSE LocaleParse(last'.sel.rv.s)
         /\ Did("get_timezone", t) =>
              last'.ret = IF GetAttr(ctx[t], "babel_tzinfo") # None
                          THEN ctx[t].babel_tzinfo
                          ELSE IF last'.sel.rv = None THEN default_timezone
                          ELSE IF last'.sel.rv.k = "str" THEN timezone(last'.sel.rv.s)
                          ELSE last'.sel.rv
         /\ Did("get_domain", t) =>
              last'.ret = IF HasAttr(ctx[t], "babel_domain") THEN ctx[t].babel_domain
                          ELSE DomainRef("default")]_vars

\* Two requests are running; one is inside a force_locale("de_DE") block with
\* the custom Domain active, the other has just resolved "en" through the
\* selector and has the default Domain and a memoized timezone.
C16_Witness ==
    /\ active["r1"] /\ active["r2"]
    /\ stack["r1"] # <<>>
    /\ ctx["r1"].forced_babel_locale = LocaleParse("de_DE")
    /\ ctx["r1"].babel_domain = DomainRef("custom")
    /\ last.op = "get_locale" /\ last.t = "r2" /\ last.sel.called
    /\ last.ret = LocaleParse("en")
    /\ ctx["r2"].babel_locale = LocaleParse("en")
    /\ ~HasAttr(ctx["r2"], "forced_babel_locale")
    /\ ctx["r2"].babel_domain = DomainRef("default")
    /\ HasAttr(ctx["r2"], "babel_tzinfo")

\* The composite of Domain d for the locale of a key, built without any
\* interleaving.
FullyBuilt(d, locale) ==
    Composite(Domain(d).domain, translation_directories(d),
              plugin_translation_packages(d), locale, 0).translations
KeyLocale(key) == CHOOSE locale \in Locales : LocaleStr(locale) = key[1]

\* C17: while get_translations() calls of two requests interleave step by
\* step, every composite in a Domain's cache, and every composite a call
\* returns, has the content of the composite built from all directories and
\* packages for its locale; a call that stores a composite under a key that
\* already has one stores equal content; and after a call has returned a
\* composite, the cache holds one under the call's key.
C17_RacingMissesAgree ==
    [][/\ \A d \in DomainObjects : \A key \in DOMAIN cache'[d] :
            SameContent(cache'[d][key], FullyBuilt(d, KeyLocale(key)))
       /\ (last'.op = "get_translations" /\ ~last'.raised) =>
            LET d == ctx'[last'.t].babel_domain.name IN
            /\ SameContent(last'.ret, FullyBuilt(d, ctx'[last'.t].babel_locale))
            /\ last'.key = CacheKey(d, ctx'[last'.t].babel_locale)
            /\ last'.key \in DOMAIN cache'[d]
            /\ SameContent(cache'[d][last'.key], last'.ret)
            /\ last'.key \in DOMAIN cache[d] =>
                 SameContent(cache[d][last'.key], cache'[d][last'.key])
       /\ \A d \in DomainObjects : DOMAIN cache[d] \subseteq DOMAIN cache'[d]]_vars

\* Two calls missed the cache for the same key and built a composite each; the
\* one that finished last has replaced the other's object under the one key.
C17_Witness ==
    /\ last.op = "get_translations"
    /\ ~last.hit /\ ~last.raised
    /\ last.ret.obj = 1
    /\ nextObj = 3
    /\ building = [t \in Threads |-> None]
    /\ DOMAIN cache["default"] = {last.key}
    /\ cache["default"][last.key].obj = 1

\* C18: force_locale(L) entered outside a request opens its block once and
\* touches nothing: entering and leaving it change no context, no selector
\* count and no cache, the block is left exactly as often as it was entered
\* (an exception of the body passes through it), get_locale() inside it
\* returns None without invoking a selector, and no thread outside a request
\* has any attribute on a request namespace.
C18_ForceLocaleOutsideRequest ==
    [][\A t \in Threads :
         /\ DidOutside("force_locale_enter", t) =>
              /\ stack'[t] = Append(stack[t], Top(t)')
              /\ ~Top(t)'.frame.bound
              /\ ~last'.raised
              /\ ctx' = ctx /\ calls' = calls /\ cache' = cache
         /\ DidOutside("force_locale_exit", t) =>
              /\ stack[t] = Append(stack'[t], Top(t))
              /\ ~Top(t).frame.bound
              /\ ctx' = ctx /\ calls' = calls /\ cache' = cache
         /\ (DidOutside("get_locale", t) /\ stack[t] # <<>>) =>
              /\ last'.ret = None
              /\ ~last'.sel.called
              /\ ctx' = ctx
         /\ ~active'[t] => ctx'[t] = EmptyNamespace]_vars

\* get_locale() inside a force_locale block entered outside a request.
C18_Witness ==
    /\ last.op = "get_locale"
    /\ ~last.inreq
    /\ last.ret = None
    /\ stack[last.t] # <<>>
    /\ ~Top(last.t).frame.bound
    /\ Top(last.t).frame.locale = LocaleParse("de_DE")
    /\ ctx[last.t] = EmptyNamespace

GettextOps == {"gettext", "ngettext", "pgettext", "npgettext"}

\* C19: as_default() outside a request raises and changes nothing.  Inside a
\* request it does not raise and makes its Domain the one on the caller's
\* context, where it stays until the request calls as_default() again or ends:
\* get_domain() returns it, and gettext / ngettext / pgettext / npgettext look
\* up in that Domain's catalogs under that Domain's cache key.  No other
\* request's active Domain changes, and a request that begins has the Babel
\* instance's own Domain until it calls as_default() itself.
C19_AsDefaultScopedToRequest ==
    [][\A t \in Threads :
         /\ DidOutside("as_default", t) =>
              /\ last'.raised
              /\ ctx' = ctx /\ cache' = cache /\ active' = active /\ stack' = stack
         /\ Did("as_default", t) =>
              /\ ~last'.raised
              /\ ctx'[t].babel_domain = last'.arg
              /\ \A u \in Threads \ {t} : ctx'[u] = ctx[u]
         /\ Did("get_domain", t) =>
              last'.ret = IF HasAttr(ctx[t], "babel_domain") THEN ctx[t].babel_domain
                          ELSE DomainRef("default")
         /\ (\E op \in GettextOps : Did(op, t)) =>
              LET d == ActiveDomain(ctx[t]).name IN
              /\ ~last'.raised
              /\ last'.key = CacheKey(d, ctx'[t].babel_locale)
              /\ last'.ret = Translation(last'.arg.fn, last'.arg.a,
                                         FullyBuilt(d, ctx'[t].babel_locale))
         /\ (/\ active[t] /\ active'[t] /\ HasAttr(ctx[t], "babel_domain")
             /\ ~(last'.op = "as_default" /\ last'.t = t)) =>
              ctx'[t].babel_domain = ctx[t].babel_domain
         /\ Did("begin_request", t) => ActiveDomain(ctx'[t]) = DomainRef("default")]_vars

\* A request that made the custom Domain its default has translated "x" from
\* that Domain's catalogs, while the other request running at the same time
\* has the Babel instance's Domain and translations cached under it.
C19_Witness ==
    /\ last.op = "gettext" /\ last.inreq
    /\ ctx[last.t].babel_domain = DomainRef("custom")
    /\ last.ret.k = "msg" /\ last.ret.domain = "myapp"
    /\ \E u \in Threads \ {last.t} :
         /\ active[u]
         /\ ctx[u].babel_domain = DomainRef("default")
    /\ cache["default"] # <<>>
    /\ cache["custom"] # <<>>

\* Some configured directory has a .mo file in the LC_MESSAGES folder of a
\* folder that parses to the locale.
Compiled(locale) ==
    \E i \in DOMAIN babel.translation_directories : \E f \in Folders :
      /\ tree[babel.translation_directories[i]].isdir
      /\ tree[babel.translation_directories[i]].folders[f] = "mo"
      /\ ~ParseFolder(f).raised
      /\ ParseFolder(f).value = locale

\* C20: list_translations(), called with the application at hand, returns a
\* list that holds the default locale, whatever the configured directories
\* hold (directories that do not exist and directories without any .mo file
\* included), and every other locale in the list has a .mo file in an
\* LC_MESSAGES folder of a configured directory.
C20_ListHasDefaultLocale ==
    (last.op = "list_translations" /\ last.inreq) =>
        /\ ~last.raised
        /\ InList(default_locale, last.ret.v)
        /\ \A i \in DOMAIN last.ret.v :
             last.ret.v[i] # default_locale => Compiled(last.ret.v[i])

\* The domain name the directory at position i is to be read with.
PairedName(i) == IF Len(Names) = 1 THEN Names[1] ELSE Names[i]

\* C21: a get_translations() that misses the cache, no configured directory
\* holding a file that does not parse, reads every configured directory once
\* and in order, each with the one configured domain name or, with several
\* names, with the name at the directory's own position; then the packages
\* with the first name, and the cache key carries the first name.
C21_DirectoriesPairedWithNames ==
    (Translated /\ ~last.hit /\ ~SomeDirectoryCorrupt) =>
        /\ Len(last.io) >= Len(ConfiguredDirs)
        /\ Len(Names) = 1 \/ Len(Names) >= Len(ConfiguredDirs)
        /\ \A i \in DOMAIN ConfiguredDirs :
             last.io[i] = Read(ConfiguredDirs[i], PairedName(i))
        /\ \A j \in DOMAIN ConfiguredPkgs :
             last.io[Len(ConfiguredDirs) + j] = Read(ConfiguredPkgs[j], Names[1])
        /\ last.key = <<LocaleStr(UsedLocale), Names[1]>>

\* An entry of the mapping that is there and not None.
IsSet(key) == date_formats[key] # Absent /\ date_formats[key] # None

\* C22: _get_format(k, format), called with the application at hand, does not
\* raise and returns: with format absent, the default configured for k in
\* place of it; then, for a width name, the override configured under
\* "k.width" when one is set and the width name itself when none is; and every
\* other format string as it is.
C22_FormatResolution ==
    (last.op = "_get_format" /\ last.inreq) =>
        LET k == last.arg.key
            given == IF last.arg.format = None THEN date_formats[k] ELSE last.arg.format
        IN /\ ~last.raised
           /\ last.ret = IF given \in {Str(w) : w \in Widths}
                         THEN IF IsSet(WidthKey(k, given.s))
                              THEN date_formats[WidthKey(k, given.s)]
                              ELSE given
                         ELSE given

\* The call before this state ended a force_locale block of t inside a request
\* and left a block of t open around it.
ExitedInner(t) ==
    /\ last.op = "force_locale_exit" /\ last.t = t /\ last.inreq
    /\ stack[t] # <<>>

C24_CatalogOfCurrentConfiguration ==
    (Translated /\ ~last.raised) =>
        SameContent(last.ret, FullyBuilt(UsedDomain, UsedLocale))

\* C25: refresh(), entering a force_locale block and leaving one change no
\* Domain's translation cache, build no catalog and leave the request's active
\* domain as it is; and a get_translations() in a request whose key is in the
\* active Domain's cache returns that very catalog object, reads no file and
\* leaves the cache as it is.  So a lookup after a refresh() or a force_locale
\* block, for the locale resolved before, is the cached instance.
C25_CacheOutlivesRefreshAndForce ==
    [][\A t \in Threads :
         /\ (Did("refresh", t) \/ Did("force_locale_enter", t) \/ Did("force_locale_exit", t)) =>
                /\ cache' = cache
                /\ nextObj' = nextObj
                /\ building' = building
                /\ ctx'[t].babel_domain = ctx[t].babel_domain
         /\ (Did("get_translations", t) /\ ~last'.raised) =>
                LET d == ActiveDomain(ctx[t]).name IN
                  last'.key \in DOMAIN cache[d] =>
                    /\ last'.hit
                    /\ last'.ret = cache[d][last'.key]
                    /\ last'.io = <<>>
                    /\ cache' = cache
                    /\ nextObj' = nextObj]_vars

\* refresh() has run in a request whose active domain is the custom Domain and
\* whose cache holds the catalog of the locale resolved before the refresh.
C25_Witness ==
    /\ last.op = "refresh" /\ last.inreq
    /\ last.arg \in Locales
    /\ ctx[last.t].babel_domain = DomainRef("custom")
    /\ stack[last.t] # <<>>
    /\ CacheKey("custom", last.arg) \in DOMAIN cache["custom"]
    /\ cache["default"] # <<>>

====
